---- MODULE Spec2Model ----
(***************************************************************************)
(* State-machine model of the Banana Squad dashboard client (v2):         *)
(* WebSocket connection manager, push-event router, job list, lazy job    *)
(* detail cache, debounced catalog search.                                *)
(*                                                                        *)
(* One action per callback of the script.  An async function is split at  *)
(* its await: the part before the await is folded into the handler that   *)
(* calls it, the continuation is an action of its own that fires when the *)
(* response arrives.  Responses may arrive in any order.                  *)
(***************************************************************************)
EXTENDS Integers, Sequences, FiniteSets, TLC

\* ------------------------------------------------------------ bounds
\* Requests (GET /api/jobs/J and GET /api/jobs?...) that may be in flight at once.
MaxRequests == 2
\* Entries the agent log may hold in the specifications that do not study it.
MaxLog == 1
\* longest agent log of the specification that fills the log
MaxLogged == 31
\* WebSocket objects not yet closed, and timers of one kind pending, that the model
\* can represent at once (the program itself has no such limits).
MaxSockets == 2
MaxTimers == 2

\* ------------------------------------------------------------ program constants
ReconnectMs == 3000
DebounceMs == 350
\* agentLog.slice(-30)
LogWindow == 30

\* ------------------------------------------------------------ values
Jobs == {"j1", "j2"}
NULL == "null"
NONE == "none"

\* STAGES (keys) in pipeline order
STAGES == <<"research", "prompt_crafting", "generating", "evaluating">>

EventTypes == {"job_started", "stage_changed", "agent_message", "progress",
               "image_generated", "variant_scored", "image_refined",
               "job_completed", "job_failed"}

VARIABLES
  sockets,          \* readyState of every WebSocket not yet garbage, oldest first; ws is the last
  statusDot,        \* $statusDot.className: "connected" / "disconnected" / NONE (markup)
  reconnectTimers,  \* remaining ms of every pending setTimeout(connect, 3000)
  currentJobId,     \* job tracked by the live pipeline
  expandedJobId,    \* job whose gallery card is expanded
  jobList,          \* sequence of job summaries
  jobListIsArray,   \* FALSE when jobList holds a JSON value that is no array (and the
                    \*   model's jobList is <<>>, since such a value has no length)
  jobDetailCache,   \* job id -> detail document or NONE
  agentLog,         \* sequence of log entries
  pipelineStage,    \* argument of the last renderPipeline call (what $stages shows)
  detailView,       \* job id -> content of the element "detail-<job id>" in the document
  inflight,         \* pending fetch("/api/jobs/" + jobId) continuations, in issue order
  catalogReqs,      \* pending fetch("/api/jobs?...") continuations, in issue order
  refineReqs,       \* pending fetch("/api/refine") continuations, in issue order
  submitReqs,       \* number of pending fetch("/api/generate") continuations
  submitDisabled,   \* $submitBtn.disabled
  promptValue,      \* $prompt.value
  uploadedFiles,    \* the staged files, each by its content type
  searchInput,      \* $searchInput.value
  searchTimers,     \* remaining ms of every pending setTimeout(loadJobs, 350)
  dirty,            \* history: jobs with an invalidating event since their last detail access
  stale,            \* history: for each pending detail request, whether a later one overtook it
  elapsed,          \* history: ms since the last search input / the last close (-1: none
                    \*   pending), and the changes of the search burst so far (2: two or more)
  last              \* history: what the most recent step did

vars == <<sockets, statusDot, reconnectTimers, currentJobId, expandedJobId, jobList,
          jobListIsArray,
          jobDetailCache, agentLog, pipelineStage, detailView, inflight, catalogReqs,
          refineReqs, submitReqs, submitDisabled, promptValue, uploadedFiles,
          searchInput, searchTimers, dirty, stale, elapsed, last>>

connVars == <<sockets, statusDot, reconnectTimers>>
pipelineVars == <<currentJobId, agentLog, pipelineStage>>
galleryVars == <<jobList, jobListIsArray, expandedJobId, jobDetailCache, detailView, inflight,
                 refineReqs>>
formVars == <<submitReqs, submitDisabled, promptValue, uploadedFiles>>
searchVars == <<catalogReqs, searchInput, searchTimers>>

\* ------------------------------------------------------------ history record
\* op, type, job: the callback that ran and its arguments;
\* accesses: its calls of fetchAndRenderDetail that found the job's element, in order,
\*   each [job, force, cached, net]: the arguments, whether the cache held the job, and
\*   whether GET /api/jobs/<job> was issued;
\* prevType: for a toggle, the type of the event handled just before it for the same job;
\*   for a job_started event, "submitDone" when the step just before it handled the
\*   response of POST /api/generate that carried the same job id;
\* known: for a job_started event, whether jobList held the job before it;
\* cleared: the step changed currentJobId from one job to another while agentLog held
\*   entries;
\* newest: for a catalog response, <<the list answered to the most recently issued of the
\*   catalog requests issued after its own and answered before it>>, or <<>> if none;
\* preBusy: for a toggle, whether a detail request for the job was pending before it;
\* dirtyServed: the jobs rendered from the cache although an invalidating event had
\*   been handled since their last detail access;
\* staleWrite: the step stored the response of a request that a later request for the
\*   same job had overtaken;
\* queries: the search texts of the GET /api/jobs?... requests it issued;
\* waited: for a timer callback, the ms since the search input last changed (debounce
\*   timer) or since the socket closed (reconnect timer);
\* threw: the handler ended with an exception (which its caller caught);
\* stage: data.stage of a stage_changed event.
NoStep == [op |-> "init", type |-> NONE, job |-> NULL, accesses |-> <<>>,
           prevType |-> NONE, preBusy |-> FALSE, dirtyServed |-> {},
           staleWrite |-> FALSE, queries |-> <<>>, waited |-> -1, threw |-> FALSE,
           stage |-> NONE, known |-> FALSE, newest |-> <<>>, cleared |-> FALSE]

\* ------------------------------------------------------------ job list helpers
JobIds(list) == {list[i].job_id : i \in 1..Len(list)}

\* jobList.find((j) => j.job_id === jobId): index of the first match, 0 if none
FindIndex(list, jobId) ==
  IF jobId \in JobIds(list)
    THEN CHOOSE i \in 1..Len(list) :
           /\ list[i].job_id = jobId
           /\ \A k \in 1..(i - 1) : list[k].job_id # jobId
    ELSE 0

StageOf(list, jobId) ==
  IF FindIndex(list, jobId) = 0 THEN NONE ELSE list[FindIndex(list, jobId)].stage

\* the summary job_started puts at the top of jobList
NewSummary(jobId) == [job_id |-> jobId, stage |-> "research", image_count |-> 0]

updateJobStage(list, jobId, stage) ==
  IF FindIndex(list, jobId) = 0
    THEN list
    ELSE [list EXCEPT ![FindIndex(list, jobId)].stage = stage]


\* ------------------------------------------------------------ detail view and cache
\* The handlers below work on a record S holding the script's variables and the
\* document, so that one handler can call another:
\*   S.currentJobId, S.expandedJobId, S.jobList, S.jobDetailCache, S.agentLog,
\*   S.pipelineStage, S.detailView, S.inflight, S.refineReqs
\* and the history fields S.accesses and S.threw.

\* Every element of the old gallery markup leaves the document when
\* $gallery.innerHTML is assigned: a pending continuation keeps its detached element.
Detach(reqs) == [i \in 1..Len(reqs) |-> [reqs[i] EXCEPT !.live = FALSE]]

\* The same when only the content of the element "detail-<jobId>" is replaced.
DetachJob(reqs, jobId) ==
  [i \in 1..Len(reqs) |-> IF reqs[i].job = jobId THEN [reqs[i] EXCEPT !.live = FALSE]
                                                 ELSE reqs[i]]

Access(S, jobId, forceRefresh, net) ==
  [job |-> jobId, force |-> forceRefresh, cached |-> (S.jobDetailCache[jobId] # NONE),
   net |-> net]

\* variant: a fetchAndRenderDetail that has no cache branch
UseCacheNever(cache, jobId, forceRefresh) == FALSE

\* if (!forceRefresh && jobDetailCache[jobId])
UseCache(cache, jobId, forceRefresh) == ~forceRefresh /\ cache[jobId] # NONE

\* The part of fetchAndRenderDetail that runs before its await.
fetchAndRenderDetail(S, jobId, forceRefresh) ==
  IF S.detailView[jobId] = "absent"
    THEN S                                        \* if (!$container) return;
    ELSE IF UseCache(S.jobDetailCache, jobId, forceRefresh)
      THEN [S EXCEPT !.detailView[jobId] = "detail",
                     !.refineReqs = DetachJob(@, jobId),
                     !.accesses = Append(@, Access(S, jobId, forceRefresh, FALSE))]
      ELSE [S EXCEPT !.detailView[jobId] = "loading",
                     !.refineReqs = DetachJob(@, jobId),
                     !.inflight = Append(@, [job |-> jobId, live |-> TRUE]),
                     !.accesses = Append(@, Access(S, jobId, forceRefresh, TRUE))]

renderGallery(S) ==
  IF Len(S.jobList) = 0
    THEN [S EXCEPT !.detailView = [j \in Jobs |-> "absent"],
                   !.inflight = Detach(@),
                   !.refineReqs = Detach(@)]
    ELSE LET S1 == [S EXCEPT
                      !.detailView = [j \in Jobs |->
                          IF j \in JobIds(S.jobList)
                            THEN IF S.expandedJobId = j THEN "spinner" ELSE "empty"
                            ELSE "absent"],
                      !.inflight = Detach(@),
                      !.refineReqs = Detach(@)]
         IN IF S.expandedJobId # NULL
              THEN fetchAndRenderDetail(S1, S.expandedJobId, FALSE)
              ELSE S1

\* delete jobDetailCache[job_id]
Invalidate(cache, jobId) == [cache EXCEPT ![jobId] = NONE]

\* ------------------------------------------------------------ pipeline card
\* STAGES.findIndex((s) => s.key === currentStage), counted from 1; 0 for none (-1)
StageIndex(currentStage) ==
  IF \E i \in 1..Len(STAGES) : STAGES[i] = currentStage
    THEN CHOOSE i \in 1..Len(STAGES) : STAGES[i] = currentStage
    ELSE 0

\* variant: a renderPipeline that shows the current stage as done already
renderPipelineEager(currentStage) ==
  [i \in 1..Len(STAGES) |->
     IF currentStage = "complete" \/ i <= StageIndex(currentStage) THEN "done" ELSE "pending"]

\* renderPipeline(currentStage): the iconClass of each stage of STAGES, in order
renderPipeline(currentStage) ==
  LET stageIndex == StageIndex(currentStage)
      isFailed == currentStage = "failed"
      isComplete == currentStage = "complete"
  IN [i \in 1..Len(STAGES) |->
        IF isFailed /\ i = stageIndex THEN "failed"
        ELSE IF isComplete \/ i < stageIndex THEN "done"
        ELSE IF i = stageIndex THEN "active"
        ELSE "pending"]

\* renderAgentLog: the entries $agentLog shows, agentLog.slice(-30)
renderAgentLog(log) ==
  SubSeq(log, IF Len(log) > LogWindow THEN Len(log) - LogWindow + 1 ELSE 1, Len(log))

\* ------------------------------------------------------------ event router
LogEntry(agent, message) == [agent |-> agent, message |-> message]

\* variant: a job_started case that starts the list afresh with the new summary
OnJobStartedAlone(S, job_id) ==
  LET S1 == [S EXCEPT !.currentJobId = job_id,
                      !.agentLog = <<>>,
                      !.pipelineStage = "research",
                      !.jobList = IF job_id \in JobIds(@)
                                    THEN @
                                    ELSE <<NewSummary(job_id)>>,
                      !.jobDetailCache = Invalidate(@, job_id)]
  IN renderGallery(S1)

OnJobStarted(S, job_id) ==
  LET S1 == [S EXCEPT !.currentJobId = job_id,
                      !.agentLog = <<>>,
                      !.pipelineStage = "research",
                      !.jobList = IF job_id \in JobIds(@)
                                    THEN @
                                    ELSE <<NewSummary(job_id)>> \o @,
                      !.jobDetailCache = Invalidate(@, job_id)]
  IN renderGallery(S1)

OnStageChanged(S, job_id, stage) ==
  [S EXCEPT !.pipelineStage = stage,
            !.jobList = updateJobStage(@, job_id, stage)]

OnAgentMessage(S, agent) ==
  [S EXCEPT !.agentLog = Append(@, LogEntry(agent, "message"))]

\* variant: a variant_scored case without the delete
OnDetailChangedKeep(S, job_id) == S

\* variant: an image_refined case without the refetch of the expanded job
OnImageRefinedLazy(S, job_id) ==
  [S EXCEPT !.jobDetailCache = Invalidate(@, job_id),
            !.agentLog = Append(@, LogEntry("generator", "refined"))]

\* image_generated and variant_scored
OnDetailChanged(S, job_id) ==
  [S EXCEPT !.jobDetailCache = Invalidate(@, job_id)]

OnImageRefined(S, job_id) ==
  LET S1 == [S EXCEPT !.jobDetailCache = Invalidate(@, job_id)]
      S2 == IF S1.expandedJobId = job_id
              THEN fetchAndRenderDetail(S1, job_id, TRUE)
              ELSE S1
  IN [S2 EXCEPT !.agentLog = Append(@, LogEntry("generator", "refined"))]

OnJobCompleted(S, job_id) ==
  LET S1 == [S EXCEPT !.jobList = updateJobStage(@, job_id, "complete"),
                      !.pipelineStage = "complete",
                      !.jobDetailCache = Invalidate(@, job_id)]
      S2 == renderGallery(S1)
  IN IF S2.expandedJobId = job_id
       THEN fetchAndRenderDetail(S2, job_id, FALSE)
       ELSE S2

OnJobFailed(S, job_id) ==
  LET S1 == [S EXCEPT !.jobList = updateJobStage(@, job_id, "failed"),
                      !.pipelineStage = "failed",
                      !.agentLog = Append(@, LogEntry("system", "error"))]
  IN renderGallery(S1)

\* Event types after which a cached detail document of the job is out of date.
ChangesDetail == {"image_generated", "variant_scored", "image_refined",
                  "job_completed", "job_failed"}

\* switch (type) { ... }; an unrecognised type falls through the switch
Cases(S, type, job_id, stage, agent) ==
  CASE type = "job_started"     -> OnJobStarted(S, job_id)
    [] type = "stage_changed"   -> OnStageChanged(S, job_id, stage)
    [] type = "agent_message"   -> OnAgentMessage(S, agent)
    [] type = "progress"        -> OnAgentMessage(S, agent)
    [] type = "image_generated" -> OnDetailChanged(S, job_id)
    [] type = "variant_scored"  -> OnDetailChanged(S, job_id)
    [] type = "image_refined"   -> OnImageRefined(S, job_id)
    [] type = "job_completed"   -> OnJobCompleted(S, job_id)
    [] type = "job_failed"      -> OnJobFailed(S, job_id)
    [] OTHER                    -> S

\* variant: the router of the older client, which files a summary under the job id of
\* every event before it looks at the type
DispatchImplicit(S, type, job_id, stage, agent) ==
  Cases([S EXCEPT !.jobList = IF job_id \in JobIds(@)
                                THEN @
                                ELSE <<[NewSummary(job_id) EXCEPT !.stage = "queued"]>> \o @],
        type, job_id, stage, agent)

\* An exception ends the handler; what the case did before it stays done.
Throw(S) == [S EXCEPT !.threw = TRUE]

\* The switch while jobList holds a value that is no array: jobList.find is not a
\* function, so the first call of it (in job_started, or in updateJobStage) throws a
\* TypeError.
CasesOnObject(S, type, job_id, stage, agent) ==
  CASE type = "job_started" ->
         Throw([S EXCEPT !.currentJobId = job_id,
                         !.agentLog = <<>>,
                         !.pipelineStage = "research"])
    [] type = "stage_changed" -> Throw([S EXCEPT !.pipelineStage = stage])
    [] type \in {"job_completed", "job_failed"} -> Throw(S)
    [] OTHER -> Cases(S, type, job_id, stage, agent)

\* handleEvent for an envelope that carries data
Dispatch(S, type, job_id, stage, agent) ==
  IF S.jobListIsArray
    THEN Cases(S, type, job_id, stage, agent)
    ELSE CasesOnObject(S, type, job_id, stage, agent)

\* handleEvent for an envelope without data: the first read of a property of data throws
\* a TypeError.

DispatchNoData(S, type, job_id) ==
  CASE type = "job_started" ->
         IF job_id \in JobIds(S.jobList)
           THEN OnJobStarted(S, job_id)                      \* data is never read
           ELSE Throw([S EXCEPT !.currentJobId = job_id,     \* data.prompt
                                !.agentLog = <<>>,
                                !.pipelineStage = "research"])
    [] type \in {"stage_changed", "agent_message", "progress"} ->
         Throw(S)                                            \* data.stage, data.agent
    [] type \in {"image_generated", "variant_scored"} -> OnDetailChanged(S, job_id)
    [] type = "image_refined" ->                             \* data.variant
         LET S1 == [S EXCEPT !.jobDetailCache = Invalidate(@, job_id)]
         IN Throw(IF S1.expandedJobId = job_id
                    THEN fetchAndRenderDetail(S1, job_id, TRUE)
                    ELSE S1)
    [] type = "job_completed" -> OnJobCompleted(S, job_id)
    [] type = "job_failed" ->                                \* data.error
         Throw([S EXCEPT !.jobList = updateJobStage(@, job_id, "failed"),
                         !.pipelineStage = "failed"])
    [] OTHER -> S

\* The script's state as one record, with no access made yet.
Now ==
  [currentJobId |-> currentJobId, expandedJobId |-> expandedJobId, jobList |-> jobList,
   jobDetailCache |-> jobDetailCache, agentLog |-> agentLog,
   pipelineStage |-> pipelineStage, detailView |-> detailView, inflight |-> inflight,
   refineReqs |-> refineReqs, jobListIsArray |-> jobListIsArray, threw |-> FALSE,
   accesses |-> <<>>]

\* Store S as the next state: the gallery side (job list, cards, detail cache) ...
CommitGallery(S) ==
  /\ expandedJobId' = S.expandedJobId
  /\ jobList' = S.jobList
  /\ jobListIsArray' = S.jobListIsArray
  /\ jobDetailCache' = S.jobDetailCache
  /\ detailView' = S.detailView
  /\ inflight' = S.inflight
  /\ refineReqs' = S.refineReqs

\* ... and the pipeline side (tracked job, agent log, pipeline card).
CommitPipeline(S) ==
  /\ currentJobId' = S.currentJobId
  /\ agentLog' = S.agentLog
  /\ pipelineStage' = S.pipelineStage

IsOpen == \E i \in 1..Len(sockets) : sockets[i] = "OPEN"

\* handleEvent(event) for a well-formed envelope
handleEvent(type, job_id, stage, agent) == Dispatch(Now, type, job_id, stage, agent)

\* ws.onmessage with a well-formed envelope: handleEvent(JSON.parse(e.data))
HandleEvent(type, job_id, stage, agent) ==
  /\ IsOpen
  /\ CommitGallery(handleEvent(type, job_id, stage, agent))
  /\ CommitPipeline(handleEvent(type, job_id, stage, agent))
  /\ UNCHANGED <<formVars, connVars, searchVars>>

\* ws.onmessage with an envelope that lacks data: the catch block logs what handleEvent
\* throws
handleEventNoData(type, job_id) == DispatchNoData(Now, type, job_id)

HandleEventNoData(type, job_id) ==
  /\ IsOpen
  /\ CommitGallery(handleEventNoData(type, job_id))
  /\ CommitPipeline(handleEventNoData(type, job_id))
  /\ UNCHANGED <<formVars, connVars, searchVars>>

\* ws.onmessage with a payload JSON.parse rejects, or that parses to null: the throw
\* comes before handleEvent has run a statement
HandleUnparsable ==
  /\ IsOpen
  /\ UNCHANGED <<formVars, connVars, searchVars, pipelineVars, galleryVars>>

\* The same callback seen from the gallery alone.  handleEvent writes currentJobId,
\* agentLog and the pipeline card, and nothing the script does to the job list, the
\* cards or the detail cache ever reads them (currentJobId is never read at all), so
\* the specifications that study the gallery leave those three at their first values.
HandleEventGallery(type, job_id) ==
  /\ IsOpen
  /\ CommitGallery(handleEvent(type, job_id, NONE, NONE))
  /\ UNCHANGED <<formVars, connVars, searchVars, pipelineVars>>

\* The same callback seen from the pipeline card alone.  What handleEvent writes to
\* currentJobId, agentLog and the pipeline card comes from the event alone: it reads
\* jobList, the cards and the cache only to update them.  The specifications that study
\* the pipeline card leave those at their first values.
HandleEventPipeline(type, job_id, stage, agent) ==
  /\ IsOpen
  /\ CommitPipeline(handleEvent(type, job_id, stage, agent))
  /\ UNCHANGED <<formVars, connVars, searchVars, galleryVars>>

\* window.toggleJob
toggleJob(jobId) ==
  renderGallery([Now EXCEPT !.expandedJobId = IF expandedJobId = jobId THEN NULL ELSE jobId])

\* onclick of a card header: only the cards of the document can be clicked
ToggleJob(jobId) ==
  /\ jobId \in JobIds(jobList)
  /\ CommitGallery(toggleJob(jobId))
  /\ UNCHANGED <<formVars, connVars, searchVars, pipelineVars>>

\* ------------------------------------------------------------ detail responses
RemoveAt(seq, i) == [k \in 1..(Len(seq) - 1) |-> IF k < i THEN seq[k] ELSE seq[k + 1]]

\* Continuation of fetchAndRenderDetail after the await; ok is res.ok and a parsable body.
DetailFetchDone(i, ok) ==
  /\ i \in 1..Len(inflight)
  /\ LET req == inflight[i]
     IN /\ IF ok
             THEN jobDetailCache' = [jobDetailCache EXCEPT ![req.job] = "detail"]
             ELSE jobDetailCache' = jobDetailCache
        /\ inflight' = RemoveAt(inflight, i)
        /\ detailView' = IF req.live
                           THEN [detailView EXCEPT ![req.job] = IF ok THEN "detail" ELSE "error"]
                           ELSE detailView
        /\ refineReqs' = IF req.live THEN DetachJob(refineReqs, req.job) ELSE refineReqs
  /\ UNCHANGED <<formVars, connVars, searchVars, pipelineVars, jobList, jobListIsArray,
                 expandedJobId>>

\* ------------------------------------------------------------ catalog
SearchTexts == {"", "a", "a "}

\* String.prototype.trim on the texts of the model
Trim(text) == IF text = "a " THEN "a" ELSE IF text = " " THEN "" ELSE text

\* The jobs the server's search matches: "a" occurs in the prompt of j1 only.
Matching(search) == IF search = "" THEN Jobs ELSE {"j1"}

ServerStages == {"complete"}

ServerSummary(jobId, stage) == [job_id |-> jobId, stage |-> stage, image_count |-> 6]

\* What GET /api/jobs?search=... may answer: the matching jobs the server has, in the
\* order of its sort key.
CatalogAnswers(search) ==
  {<<>>}
  \cup {<<ServerSummary(j, s)>> : j \in Matching(search), s \in ServerStages}
  \cup UNION {{<<ServerSummary(j, s), ServerSummary(k, t)>> :
                  k \in Matching(search) \ {j}, s \in ServerStages, t \in ServerStages} :
                j \in Matching(search)}

\* loadJobs up to its await
loadJobs(reqs, text) == Append(reqs, [search |-> Trim(text)])

\* $sortSelect "change" listener
SortChange ==
  /\ catalogReqs' = loadJobs(catalogReqs, searchInput)
  /\ UNCHANGED <<formVars, connVars, pipelineVars, galleryVars, searchInput, searchTimers>>

\* Continuation of loadJobs: jobList = await res.json(); renderGallery();
loadJobsDone(answer) ==
  renderGallery([Now EXCEPT !.jobList = answer, !.jobListIsArray = TRUE])

\* The same continuation for a response with an error status whose body is a JSON
\* object (the server's error document, as the submit handler reads it from
\* POST /api/generate): res.ok is not looked at, the object becomes jobList, and
\* renderGallery, finding no length, shows the empty gallery.
loadJobsRejected ==
  renderGallery([Now EXCEPT !.jobList = <<>>, !.jobListIsArray = FALSE])

LoadJobsRejected(i) ==
  /\ i \in 1..Len(catalogReqs)
  /\ catalogReqs' = RemoveAt(catalogReqs, i)
  /\ CommitGallery(loadJobsRejected)
  /\ UNCHANGED <<formVars, connVars, pipelineVars, searchInput, searchTimers>>

LoadJobsDone(i, answer) ==
  /\ i \in 1..Len(catalogReqs)
  /\ answer \in CatalogAnswers(catalogReqs[i].search)
  /\ catalogReqs' = RemoveAt(catalogReqs, i)
  /\ CommitGallery(loadJobsDone(answer))
  /\ UNCHANGED <<formVars, connVars, pipelineVars, searchInput, searchTimers>>

\* fetch rejects or the body does not parse: the catch block only logs
LoadJobsFailed(i) ==
  /\ i \in 1..Len(catalogReqs)
  /\ catalogReqs' = RemoveAt(catalogReqs, i)
  /\ UNCHANGED <<formVars, connVars, pipelineVars, galleryVars, searchInput, searchTimers>>

\* clearTimeout(searchDebounce); searchDebounce = setTimeout(loadJobs, 350);
\* searchDebounce names the newest timer, the only one clearTimeout can cancel.
\* variant: an input listener without the clearTimeout
DebounceKeepOld(timers) == Append(timers, DebounceMs)

Debounce(timers) ==
  IF Len(timers) = 0 THEN <<DebounceMs>> ELSE Append(SubSeq(timers, 1, Len(timers) - 1), DebounceMs)

\* $searchInput "input" listener
SearchInput(text) ==
  /\ text \in SearchTexts \ {searchInput}
  /\ searchInput' = text
  /\ searchTimers' = Debounce(searchTimers)
  /\ UNCHANGED <<formVars, connVars, pipelineVars, galleryVars, catalogReqs>>

\* the debounce timer runs loadJobs
SearchTimerFires(k) ==
  /\ k \in 1..Len(searchTimers)
  /\ searchTimers[k] = 0
  /\ searchTimers' = RemoveAt(searchTimers, k)
  /\ catalogReqs' = loadJobs(catalogReqs, searchInput)
  /\ UNCHANGED <<formVars, connVars, pipelineVars, galleryVars, searchInput>>


\* ------------------------------------------------------------ submission form
PromptTexts == {"", " ", "p"}

\* the user edits the prompt field
PromptInput(text) ==
  /\ text \in PromptTexts \ {promptValue}
  /\ promptValue' = text
  /\ UNCHANGED <<submitReqs, submitDisabled, uploadedFiles, connVars, searchVars,
                 pipelineVars, galleryVars>>

FileTypes == {"image/png", "text/plain"}

\* f.type.startsWith("image/")
IsImage(type) == type = "image/png"

\* addFiles(fileList), from the drop listener or the change listener of $fileInput
addFiles(fileList) ==
  /\ uploadedFiles' = uploadedFiles \o SelectSeq(fileList, IsImage)
  /\ UNCHANGED <<submitReqs, submitDisabled, promptValue, connVars, searchVars,
                 pipelineVars, galleryVars>>

\* window.removeFile(index), from the button of a preview
removeFile(index) ==
  /\ index \in 1..Len(uploadedFiles)
  /\ uploadedFiles' = RemoveAt(uploadedFiles, index)
  /\ UNCHANGED <<submitReqs, submitDisabled, promptValue, connVars, searchVars,
                 pipelineVars, galleryVars>>

\* variant: a submit listener without the check of the prompt
SubmitFormUnchecked ==
  /\ ~submitDisabled
  /\ submitDisabled' = TRUE /\ submitReqs' = submitReqs + 1
  /\ UNCHANGED <<promptValue, uploadedFiles, connVars, searchVars, pipelineVars, galleryVars>>

\* $form "submit" listener up to its await; the form cannot be submitted while its
\* submit button is disabled
SubmitForm ==
  /\ ~submitDisabled
  /\ IF Trim(promptValue) = ""
       THEN UNCHANGED <<submitReqs, submitDisabled>>         \* if (!prompt) return;
       ELSE submitDisabled' = TRUE /\ submitReqs' = submitReqs + 1
  /\ UNCHANGED <<promptValue, uploadedFiles, connVars, searchVars, pipelineVars, galleryVars>>

\* variant: a success path that keeps the log
submitDoneKeepLog(S, job_id) ==
  [S EXCEPT !.currentJobId = job_id, !.pipelineStage = "queued"]

\* variant: a success path that shows the first stage at once
submitDoneResearch(S, job_id) ==
  [S EXCEPT !.currentJobId = job_id, !.agentLog = <<>>, !.pipelineStage = "research"]

\* the success path: const { job_id } = await res.json(); ... renderPipeline("queued")
submitDone(S, job_id) ==
  [S EXCEPT !.currentJobId = job_id, !.agentLog = <<>>, !.pipelineStage = "queued"]

\* variant: a continuation whose failure paths leave the button disabled
SubmitFormDoneStuck(ok, job_id) ==
  /\ submitReqs > 0
  /\ submitReqs' = submitReqs - 1
  /\ submitDisabled' = ~ok
  /\ IF ok
       THEN /\ CommitPipeline(submitDone(Now, job_id))
            /\ promptValue' = ""
            /\ uploadedFiles' = <<>>
       ELSE UNCHANGED <<pipelineVars, promptValue, uploadedFiles>>
  /\ UNCHANGED <<connVars, searchVars, galleryVars>>

\* Continuation of the submit listener: ok is res.ok with a body that parses, and then
\* the form is cleared; otherwise an alert is shown and the form keeps its input.  The
\* finally block enables the button in every case.
SubmitFormDone(ok, job_id) ==
  /\ submitReqs > 0
  /\ submitReqs' = submitReqs - 1
  /\ submitDisabled' = FALSE
  /\ IF ok
       THEN /\ CommitPipeline(submitDone(Now, job_id))
            /\ promptValue' = ""
            /\ uploadedFiles' = <<>>
       ELSE UNCHANGED <<pipelineVars, promptValue, uploadedFiles>>
  /\ UNCHANGED <<connVars, searchVars, galleryVars>>

\* ------------------------------------------------------------ refinement form
\* refineReqs holds the pending POST /api/refine calls, each [job, live]: live says that
\* the button .btn-refine-submit the call disabled is still in the document.  The
\* model has one variant per job.  A rendered detail view carries the form of the
\* variant; its submit button is disabled when a live call for the job is pending.
RefineDisabled(jobId) ==
  \E i \in 1..Len(refineReqs) : refineReqs[i].job = jobId /\ refineReqs[i].live

\* window.submitRefine up to its await, called by a click on the enabled button of
\* the form (opened with window.showRefineForm) in the rendered detail view
SubmitRefine(jobId) ==
  /\ detailView[jobId] = "detail"
  /\ ~RefineDisabled(jobId)
  /\ refineReqs' = Append(refineReqs, [job |-> jobId, live |-> TRUE])
  /\ UNCHANGED <<formVars, connVars, searchVars, pipelineVars, jobList, jobListIsArray,
                 expandedJobId,
                 jobDetailCache, detailView, inflight>>

\* Continuation of window.submitRefine: on res.ok the log gets its entry; otherwise an
\* alert is shown.  The finally block enables the button the call had disabled,
\* which is the button of the document only if the call is still live.
SubmitRefineDone(i, ok) ==
  /\ i \in 1..Len(refineReqs)
  /\ refineReqs' = RemoveAt(refineReqs, i)
  /\ agentLog' = IF ok THEN Append(agentLog, LogEntry("generator", "refining")) ELSE agentLog
  /\ UNCHANGED <<formVars, connVars, searchVars, currentJobId, pipelineStage, jobList,
                 jobListIsArray,
                 expandedJobId, jobDetailCache, detailView, inflight>>

\* ------------------------------------------------------------ connection manager
Alive == {"CONNECTING", "OPEN"}

\* WebSocket.close(): a socket that is connecting or open starts closing, its close
\* event still to come; on any other socket the call does nothing.
Close(state) == IF state \in Alive THEN "CLOSING" ELSE state

\* ws.close() where ws is the newest socket
CloseNewest(socks) ==
  IF Len(socks) = 0 THEN socks ELSE [socks EXCEPT ![Len(socks)] = Close(@)]

\* ws.onopen
WsOpen(i) ==
  /\ i \in 1..Len(sockets)
  /\ sockets[i] = "CONNECTING"
  /\ sockets' = [sockets EXCEPT ![i] = "OPEN"]
  /\ statusDot' = "connected"
  /\ UNCHANGED <<formVars, reconnectTimers, pipelineVars, galleryVars, searchVars>>

\* The transport of socket i fails: the browser fires "error" and will fire "close".
\* ws.onerror = () => ws.close()
WsError(i) ==
  /\ i \in 1..Len(sockets)
  /\ sockets[i] \in Alive
  /\ sockets' = CloseNewest([sockets EXCEPT ![i] = "CLOSING"])
  /\ UNCHANGED <<formVars, statusDot, reconnectTimers, pipelineVars, galleryVars, searchVars>>

\* The server or the network ends socket i without an error event.
WsDrop(i) ==
  /\ i \in 1..Len(sockets)
  /\ sockets[i] \in Alive
  /\ sockets' = [sockets EXCEPT ![i] = "CLOSING"]
  /\ UNCHANGED <<formVars, statusDot, reconnectTimers, pipelineVars, galleryVars, searchVars>>

\* setTimeout(connect, 3000) in ws.onclose
\* variants: an onclose that schedules two reconnects, or none
ScheduleTwice(timers) == timers \o <<ReconnectMs, ReconnectMs>>

ScheduleNone(timers) == timers

ScheduleReconnect(timers) == Append(timers, ReconnectMs)

\* ws.onclose: fired once for a socket, which is closed from then on
WsClose(i) ==
  /\ i \in 1..Len(sockets)
  /\ sockets[i] = "CLOSING"
  /\ sockets' = RemoveAt(sockets, i)
  /\ statusDot' = "disconnected"
  /\ reconnectTimers' = ScheduleReconnect(reconnectTimers)
  /\ UNCHANGED <<formVars, pipelineVars, galleryVars, searchVars>>

\* connect(): ws = new WebSocket(...)
connect(socks) == Append(socks, "CONNECTING")

\* the reconnect timer runs connect
ReconnectFires(k) ==
  /\ k \in 1..Len(reconnectTimers)
  /\ reconnectTimers[k] = 0
  /\ reconnectTimers' = RemoveAt(reconnectTimers, k)
  /\ sockets' = connect(sockets)
  /\ UNCHANGED <<formVars, statusDot, pipelineVars, galleryVars, searchVars>>

\* ------------------------------------------------------------ time
Range(seq) == {seq[i] : i \in 1..Len(seq)}

Pending == Range(reconnectTimers) \cup Range(searchTimers)

\* ms until the first pending timer is due (0 if none is pending)
NextDeadline ==
  IF Pending = {} THEN 0 ELSE CHOOSE d \in Pending : \A e \in Pending : d <= e

\* Time passes in steps of at most half the debounce delay, and never past the
\* deadline of a pending timer.
Quantum == DebounceMs \div 2

Elapse(timers, d) == [k \in 1..Len(timers) |-> timers[k] - d]

Tick(d) ==
  /\ Pending # {}
  /\ d > 0
  /\ d \in {NextDeadline, Quantum}
  /\ d <= NextDeadline
  /\ reconnectTimers' = Elapse(reconnectTimers, d)
  /\ searchTimers' = Elapse(searchTimers, d)
  /\ UNCHANGED <<formVars, sockets, statusDot, pipelineVars, galleryVars, catalogReqs, searchInput>>

\* ------------------------------------------------------------ initial state
\* After the script has run: init() has called connect() and loadJobs() is at its await.
Init ==
  /\ sockets = connect(<<>>)
  /\ statusDot = NONE
  /\ reconnectTimers = <<>>
  /\ currentJobId = NULL
  /\ expandedJobId = NULL
  /\ jobList = <<>>
  /\ jobDetailCache = [j \in Jobs |-> NONE]
  /\ agentLog = <<>>
  /\ pipelineStage = NONE
  /\ jobListIsArray = TRUE
  /\ detailView = [j \in Jobs |-> "absent"]
  /\ inflight = <<>>
  /\ catalogReqs = loadJobs(<<>>, "")
  /\ refineReqs = <<>>
  /\ submitReqs = 0
  /\ submitDisabled = FALSE
  /\ promptValue = ""
  /\ uploadedFiles = <<>>
  /\ searchInput = ""
  /\ searchTimers = <<>>
  /\ dirty = [j \in Jobs |-> FALSE]
  /\ stale = <<>>
  /\ elapsed = [input |-> -1, close |-> -1, changes |-> 0]
  /\ last = NoStep

\* ------------------------------------------------------------ bounds and history
\* The bounds of the model, on the state a step leads to.
Bounded ==
  /\ Len(inflight') + Len(catalogReqs') <= MaxRequests
  /\ Len(refineReqs') <= MaxRequests
  /\ Len(agentLog') <= MaxLog
  /\ Len(sockets') <= MaxSockets
  /\ Len(reconnectTimers') <= MaxTimers
  /\ Len(searchTimers') <= MaxTimers

Busy(jobId) == \E i \in 1..Len(inflight) : inflight[i].job = jobId

Observed(op, type, jobId, S) ==
  [NoStep EXCEPT !.op = op, !.type = type, !.job = jobId, !.accesses = S.accesses,
                 !.threw = S.threw]

\* history of the specifications of the gallery: the step and its detail accesses
Record(step) == last' = step /\ UNCHANGED <<dirty, stale, elapsed>>

\* ------------------------------------------------------------ Spec: gallery and detail cache
\* The event types that reach the job list, the cards or the detail cache;
\* image_generated runs the same statements as variant_scored.
GalleryEvents == {"job_started", "variant_scored", "image_refined", "job_completed",
                  "job_failed"}

Opened ==
  \E i \in 1..Len(sockets) : WsOpen(i) /\ Record(Observed("open", NONE, NULL, Now))

Pushed ==
  \E type \in GalleryEvents, j \in Jobs :
    /\ HandleEventGallery(type, j)
    /\ Bounded
    /\ Record(Observed("event", type, j, handleEvent(type, j, NONE, NONE)))

Toggled ==
  \E j \in Jobs :
    /\ ToggleJob(j)
    /\ Bounded
    /\ Record([Observed("toggle", NONE, j, toggleJob(j)) EXCEPT
                 !.prevType = IF last.op = "event" /\ last.job = j THEN last.type ELSE NONE,
                 !.preBusy = Busy(j)])

DetailArrived ==
  \E i \in 1..Len(inflight), ok \in BOOLEAN :
    /\ DetailFetchDone(i, ok)
    /\ Record(Observed("fetchDone", NONE, NULL, Now))

Sorted ==
  /\ SortChange
  /\ Bounded
  /\ Record([Observed("sort", NONE, NULL, Now) EXCEPT !.queries = <<Trim(searchInput)>>])

CatalogArrived ==
  \E i \in 1..Len(catalogReqs) :
    \E answer \in CatalogAnswers(catalogReqs[i].search) :
      /\ LoadJobsDone(i, answer)
      /\ Bounded
      /\ Record(Observed("catalog", "ok", NULL, loadJobsDone(answer)))

CatalogFailed ==
  \E i \in 1..Len(catalogReqs) :
    LoadJobsFailed(i) /\ Record(Observed("catalog", "fail", NULL, Now))

Next ==
  \/ Opened
  \/ Pushed
  \/ Toggled
  \/ DetailArrived
  \/ Sorted
  \/ CatalogArrived
  \/ CatalogFailed

Spec == Init /\ [][Next]_vars

\* ------------------------------------------------------------ SpecRouter: the event router
\* Every event type on the whole state, with the catalog; no card is ever expanded.
StageInputs == {"generating"}
Agents == {"research"}

Routed ==
  \E type \in EventTypes, j \in Jobs, stage \in StageInputs, agent \in Agents :
    /\ HandleEvent(type, j, stage, agent)
    /\ Bounded
    /\ Record(Observed("event", type, j, handleEvent(type, j, stage, agent)))

NextRouter ==
  \/ Opened
  \/ Routed
  \/ CatalogArrived
  \/ CatalogFailed

SpecRouter == Init /\ [][NextRouter]_vars

\* ------------------------------------------------------------ SpecFrame: messages to ignore
\* Events of a type the switch has no case for, on states in which a job is tracked, the
\* log holds an entry, a card is expanded and the cache is filled.
UnknownTypes == {"heartbeat"}

Noted ==
  \E type \in {"job_started", "agent_message"}, j \in Jobs, agent \in Agents :
    /\ HandleEvent(type, j, NONE, agent)
    /\ Bounded
    /\ Record(Observed("event", type, j, handleEvent(type, j, NONE, agent)))

Ignored ==
  \E type \in UnknownTypes, j \in Jobs, agent \in Agents :
    /\ HandleEvent(type, j, NONE, agent)
    /\ Bounded
    /\ Record(Observed("event", type, j, handleEvent(type, j, NONE, agent)))

NextFrame ==
  \/ Opened
  \/ Noted
  \/ Toggled
  \/ DetailArrived
  \/ Ignored

SpecFrame == Init /\ [][NextFrame]_vars

\* ------------------------------------------------------------ SpecMalformed: broken messages
\* Envelopes without data and payloads that do not parse, between well-formed events.
Truncated ==
  \E type \in EventTypes \cup UnknownTypes, j \in Jobs :
    /\ HandleEventNoData(type, j)
    /\ Bounded
    /\ Record(Observed("malformed", type, j, handleEventNoData(type, j)))

Unparsable ==
  /\ HandleUnparsable
  /\ Record(Observed("malformed", NONE, NULL, Throw(Now)))

NextMalformed ==
  \/ Opened
  \/ Noted
  \/ Truncated
  \/ Unparsable

SpecMalformed == Init /\ [][NextMalformed]_vars

\* ------------------------------------------------------------ SpecPipeline: the pipeline card
\* The events that render the pipeline card, and submissions, with every stage name.
PipelineStageInputs == Range(STAGES) \cup {"complete"}

PipelineEvents == {"job_started", "stage_changed", "job_completed", "job_failed"}

Piped ==
  \E type \in PipelineEvents, j \in Jobs, stage \in PipelineStageInputs :
    /\ (type # "stage_changed") => (stage = "complete")
    /\ HandleEventPipeline(type, j, stage, NONE)
    /\ Bounded
    /\ Record([NoStep EXCEPT !.op = "event", !.type = type, !.job = j,
                             !.stage = IF type = "stage_changed" THEN stage ELSE NONE])

\* the user writes a prompt
Prompted ==
  PromptInput("p") /\ Record([NoStep EXCEPT !.op = "prompt"])

Submitted ==
  /\ SubmitForm
  /\ Bounded
  /\ Record([NoStep EXCEPT !.op = "submit", !.type = Trim(promptValue)])

SubmitAnswered ==
  \E ok \in BOOLEAN, j \in Jobs :
    /\ SubmitFormDone(ok, j)
    /\ Bounded
    /\ Record([NoStep EXCEPT !.op = "submitDone", !.type = IF ok THEN "ok" ELSE "fail",
                             !.job = IF ok THEN j ELSE NULL])

NextPipeline ==
  \/ Opened
  \/ Piped
  \/ Prompted
  \/ Submitted
  \/ SubmitAnswered

SpecPipeline == Init /\ [][NextPipeline]_vars

\* ------------------------------------------------------------ SpecSubmit: a submission and its job
\* Submissions, the job_started events of their jobs, the events that follow them and
\* catalog responses.
Announced ==
  \E j \in Jobs :
    /\ HandleEvent("job_started", j, NONE, NONE)
    /\ Bounded
    /\ Record([Observed("event", "job_started", j, handleEvent("job_started", j, NONE, NONE))
                 EXCEPT !.prevType = IF last.op = "submitDone" /\ last.type = "ok"
                                          /\ last.job = j
                                        THEN "submitDone" ELSE NONE,
                        !.known = j \in JobIds(jobList)])

\* the other event types that write to jobList or to the agent log
FollowTypes == {"stage_changed", "agent_message", "job_completed", "job_failed"}

Followed ==
  \E type \in FollowTypes, j \in Jobs, stage \in StageInputs,
     agent \in Agents :
    /\ HandleEvent(type, j, stage, agent)
    /\ Bounded
    /\ Record(Observed("event", type, j, handleEvent(type, j, stage, agent)))

NextSubmit ==
  \/ Opened
  \/ Announced
  \/ Followed
  \/ Prompted
  \/ Submitted
  \/ SubmitAnswered
  \/ CatalogArrived

SpecSubmit == Init /\ [][NextSubmit]_vars

\* ------------------------------------------------------------ SpecRefine: refinement requests
\* Refinement requests of a rendered detail view, against the job_started events and
\* catalog responses that render the gallery again.
RefineSent ==
  \E j \in Jobs :
    /\ SubmitRefine(j)
    /\ Bounded
    /\ Record([NoStep EXCEPT !.op = "refine", !.job = j])

RefineAnswered ==
  \E i \in 1..Len(refineReqs), ok \in BOOLEAN :
    /\ SubmitRefineDone(i, ok)
    /\ Bounded
    /\ Record([NoStep EXCEPT !.op = "refineDone", !.type = IF ok THEN "ok" ELSE "fail",
                             !.job = refineReqs[i].job])

NextRefine ==
  \/ Opened
  \/ Announced
  \/ Toggled
  \/ DetailArrived
  \/ CatalogArrived
  \/ RefineSent
  \/ RefineAnswered

SpecRefine == Init /\ [][NextRefine]_vars

\* ------------------------------------------------------------ SpecCatalog: catalog responses
\* Catalog requests of the page load and of sort changes, their responses in every
\* order, and job_started events.  In this specification stale[i] is, for pending
\* catalog request i, <<the list answered to the most recently issued request that was
\* issued after request i and is answered already>>, or <<>> if there is none.
Overtaken(i) == IF i <= Len(stale) THEN stale[i] ELSE <<>>

CatalogAnswered ==
  \E i \in 1..Len(catalogReqs) :
    \E answer \in CatalogAnswers(catalogReqs[i].search) :
      /\ LoadJobsDone(i, answer)
      /\ Bounded
      /\ stale' = [k \in 1..(Len(catalogReqs) - 1) |->
                     IF k < i
                       THEN IF Overtaken(i) = <<>> THEN <<answer>> ELSE Overtaken(k)
                       ELSE Overtaken(k + 1)]
      /\ last' = [Observed("catalog", "ok", NULL, loadJobsDone(answer))
                    EXCEPT !.newest = Overtaken(i)]
      /\ UNCHANGED <<dirty, elapsed>>

CatalogLost ==
  \E i \in 1..Len(catalogReqs) :
    /\ LoadJobsFailed(i)
    /\ stale' = [k \in 1..(Len(catalogReqs) - 1) |->
                   IF k < i THEN Overtaken(k) ELSE Overtaken(k + 1)]
    /\ last' = Observed("catalog", "fail", NULL, Now)
    /\ UNCHANGED <<dirty, elapsed>>

CatalogRefused ==
  \E i \in 1..Len(catalogReqs) :
    /\ LoadJobsRejected(i)
    /\ Bounded
    /\ stale' = [k \in 1..(Len(catalogReqs) - 1) |->
                   IF k < i THEN Overtaken(k) ELSE Overtaken(k + 1)]
    /\ last' = Observed("catalog", "rejected", NULL, loadJobsRejected)
    /\ UNCHANGED <<dirty, elapsed>>

NextCatalog ==
  \/ Opened
  \/ Announced
  \/ Sorted
  \/ CatalogAnswered
  \/ CatalogLost
  \/ CatalogRefused

SpecCatalog == Init /\ [][NextCatalog]_vars

\* ------------------------------------------------------------ SpecLog: the agent log
\* Agent messages up to a log of MaxLogged entries, job_started events and submissions.
Switch(jobId) == currentJobId # NULL /\ currentJobId # jobId /\ Len(agentLog) > 0

Logged ==
  \E j \in Jobs, agent \in Agents :
    /\ HandleEventPipeline("agent_message", j, NONE, agent)
    /\ Len(agentLog') <= MaxLogged
    /\ Record([NoStep EXCEPT !.op = "event", !.type = "agent_message", !.job = j])

Switched ==
  \E j \in Jobs :
    /\ HandleEventPipeline("job_started", j, NONE, NONE)
    /\ Record([NoStep EXCEPT !.op = "event", !.type = "job_started", !.job = j,
                             !.cleared = Switch(j)])

LogSubmitted ==
  SubmitForm /\ Record([NoStep EXCEPT !.op = "submit", !.type = Trim(promptValue)])

LogResponded ==
  \E ok \in BOOLEAN, j \in Jobs :
    /\ SubmitFormDone(ok, j)
    /\ Record([NoStep EXCEPT !.op = "submitDone", !.type = IF ok THEN "ok" ELSE "fail",
                             !.job = IF ok THEN j ELSE NULL,
                             !.cleared = ok /\ Switch(j)])

NextLog ==
  \/ Opened
  \/ Logged
  \/ Switched
  \/ Prompted
  \/ LogSubmitted
  \/ LogResponded

SpecLog == Init /\ [][NextLog]_vars

\* ------------------------------------------------------------ SpecForm: the submission form
\* The prompt field, the staged files and submissions, with job_started and
\* agent_message events.
MaxFiles == 2

FormTyped ==
  \E text \in PromptTexts :
    PromptInput(text) /\ Record([NoStep EXCEPT !.op = "prompt", !.type = text])

FilesAdded ==
  \E type \in FileTypes :
    /\ addFiles(<<type>>)
    /\ Len(uploadedFiles') <= MaxFiles
    /\ Record([NoStep EXCEPT !.op = "addFiles", !.type = type])

FileRemoved ==
  \E index \in 1..Len(uploadedFiles) :
    removeFile(index) /\ Record([NoStep EXCEPT !.op = "removeFile"])

NextForm ==
  \/ Opened
  \/ Noted
  \/ FormTyped
  \/ FilesAdded
  \/ FileRemoved
  \/ Submitted
  \/ SubmitAnswered

SpecForm == Init /\ [][NextForm]_vars

\* ------------------------------------------------------------ SpecRace: events against responses
\* Push events, expansions and detail responses in every order, with two histories:
\* dirty[J]: an event of ChangesDetail for J has been handled and no detail access for J
\*   has been made since (an access the handler itself makes after its own statements
\*   counts as made since);
\* stale[i]: the cache entry of the job of pending request i holds the response of a
\*   request issued after request i.
Accessed(S, jobId) == \E i \in 1..Len(S.accesses) : S.accesses[i].job = jobId

Refetched(S, jobId) ==
  \E i \in 1..Len(S.accesses) : S.accesses[i].job = jobId /\ S.accesses[i].net

DirtyServed(S) ==
  {S.accesses[i].job : i \in {k \in 1..Len(S.accesses) :
                                 ~S.accesses[k].net /\ dirty[S.accesses[k].job]}}

\* history after a handler that leads to S; type and jobId name the event, if it is one
RecordRace(op, type, jobId, S) ==
  /\ dirty' = [k \in Jobs |->
                 IF Refetched(S, k) THEN FALSE
                 ELSE IF k = jobId /\ type \in ChangesDetail THEN TRUE
                 ELSE IF Accessed(S, k) THEN FALSE
                 ELSE dirty[k]]
  /\ stale' = [i \in 1..Len(S.inflight) |->
                 IF i <= Len(stale)
                   THEN stale[i] /\ S.jobDetailCache[S.inflight[i].job] # NONE
                   ELSE FALSE]
  /\ last' = [NoStep EXCEPT !.op = op, !.type = type, !.job = jobId,
                            !.dirtyServed = DirtyServed(S)]
  /\ UNCHANGED elapsed

RaceEvents == ChangesDetail \cup {"job_started"}

RaceOpened ==
  \E i \in 1..Len(sockets) : WsOpen(i) /\ RecordRace("open", NONE, NULL, Now)

RacePushed ==
  \E type \in RaceEvents, j \in Jobs :
    /\ HandleEventGallery(type, j)
    /\ Bounded
    /\ RecordRace("event", type, j, handleEvent(type, j, NONE, NONE))

RaceToggled ==
  \E j \in Jobs :
    /\ ToggleJob(j)
    /\ Bounded
    /\ RecordRace("toggle", NONE, NULL, toggleJob(j))

RaceDetailArrived ==
  \E i \in 1..Len(inflight), ok \in BOOLEAN :
    /\ DetailFetchDone(i, ok)
    /\ stale' = [k \in 1..(Len(inflight) - 1) |->
                   LET n == IF k < i THEN k ELSE k + 1
                   IN IF ok /\ inflight[n].job = inflight[i].job
                        THEN n < i
                        ELSE stale[n]]
    /\ last' = [NoStep EXCEPT !.op = "fetchDone", !.staleWrite = (ok /\ stale[i])]
    /\ UNCHANGED <<dirty, elapsed>>

RaceCatalogArrived ==
  \E i \in 1..Len(catalogReqs) :
    \E answer \in CatalogAnswers(catalogReqs[i].search) :
      /\ LoadJobsDone(i, answer)
      /\ Bounded
      /\ RecordRace("catalog", NONE, NULL, loadJobsDone(answer))

RaceCatalogFailed ==
  \E i \in 1..Len(catalogReqs) :
    LoadJobsFailed(i) /\ RecordRace("catalog", NONE, NULL, Now)

NextRace ==
  \/ RaceOpened
  \/ RacePushed
  \/ RaceToggled
  \/ RaceDetailArrived
  \/ RaceCatalogArrived
  \/ RaceCatalogFailed

SpecRace == Init /\ [][NextRace]_vars

\* ------------------------------------------------------------ time in the histories
Later(ms, d) == IF ms >= 0 THEN ms + d ELSE ms

Ticked ==
  \E d \in {NextDeadline, Quantum} :
    /\ Tick(d)
    /\ elapsed' = [elapsed EXCEPT !.input = Later(@, d), !.close = Later(@, d)]
    /\ last' = [NoStep EXCEPT !.op = "tick"]
    /\ UNCHANGED <<dirty, stale>>

\* ------------------------------------------------------------ SpecSearch: the debounced search
\* Timers are ideal: the callback of a timer runs at the instant the timer is due, before
\* any event of a later instant (Tick never passes a deadline), and an input event of
\* that same instant is handled after it.
Typed ==
  \E text \in SearchTexts :
    /\ \A k \in 1..Len(searchTimers) : searchTimers[k] > 0
    /\ SearchInput(text)
    /\ Bounded
    /\ elapsed' = [elapsed EXCEPT !.input = 0,
                                  !.changes = IF elapsed.input >= 0 THEN 2 ELSE 1]
    /\ last' = [NoStep EXCEPT !.op = "input"]
    /\ UNCHANGED <<dirty, stale>>

Debounced ==
  \E k \in 1..Len(searchTimers) :
    /\ SearchTimerFires(k)
    /\ Bounded
    /\ elapsed' = [elapsed EXCEPT !.input = -1]
    /\ last' = [NoStep EXCEPT !.op = "debounce", !.queries = <<Trim(searchInput)>>,
                              !.waited = elapsed.input]
    /\ UNCHANGED <<dirty, stale>>

NextSearch ==
  \/ Typed
  \/ Ticked
  \/ Debounced
  \/ Sorted
  \/ CatalogArrived
  \/ CatalogFailed

SpecSearch == Init /\ [][NextSearch]_vars

\* ------------------------------------------------------------ SpecConn: the connection manager
\* The socket's callbacks, the reconnect timer and time, with job_started events while
\* the socket is open.  Time never stops and a due timer's callback runs: the two
\* fairness conditions.
Connected ==
  \E i \in 1..Len(sockets) : WsOpen(i) /\ Record([NoStep EXCEPT !.op = "open"])

Errored ==
  \E i \in 1..Len(sockets) : WsError(i) /\ Record([NoStep EXCEPT !.op = "error"])

Dropped ==
  \E i \in 1..Len(sockets) : WsDrop(i) /\ Record([NoStep EXCEPT !.op = "drop"])

Closed ==
  \E i \in 1..Len(sockets) :
    /\ WsClose(i)
    /\ Bounded
    /\ elapsed' = [elapsed EXCEPT !.close = 0]
    /\ last' = [NoStep EXCEPT !.op = "close"]
    /\ UNCHANGED <<dirty, stale>>

Reconnected ==
  \E k \in 1..Len(reconnectTimers) :
    /\ ReconnectFires(k)
    /\ Bounded
    /\ elapsed' = [elapsed EXCEPT !.close = -1]
    /\ last' = [NoStep EXCEPT !.op = "reconnect", !.waited = elapsed.close]
    /\ UNCHANGED <<dirty, stale>>

Started ==
  \E j \in Jobs :
    /\ HandleEvent("job_started", j, NONE, NONE)
    /\ Bounded
    /\ Record([NoStep EXCEPT !.op = "event"])

NextConn ==
  \/ Connected
  \/ Errored
  \/ Dropped
  \/ Closed
  \/ Reconnected
  \/ Ticked
  \/ Started

SpecConn == Init /\ [][NextConn]_vars /\ WF_vars(Ticked) /\ WF_vars(Reconnected)

\* ------------------------------------------------------------ claims
\* C1 (as stated): after handleEvent has handled job_started for job J, the summary of J
\* in jobList has stage "research", whatever jobList held before, a summary of J with
\* another stage included.
C1_StartedIsResearch ==
  (last.op = "event" /\ last.type = "job_started")
    => StageOf(jobList, last.job) = "research"

\* C2 (as stated): a job whose stage is "failed" keeps that stage through every later
\* event, stage_changed and job_completed for that job included.
C2_FailedIsTerminal ==
  [][\A j \in Jobs :
       (StageOf(jobList, j) = "failed" /\ last'.op = "event")
         => StageOf(jobList', j) = "failed"]_vars

\* C3 (as stated): once image_generated, variant_scored, image_refined, job_completed or
\* job_failed has been handled for job J, the next detail access for J issues
\* GET /api/jobs/J, in every order of events, expansions and responses: no step renders
\* from the cache a job for which such an event has been handled since its last access.
C3_RefetchAfterEvent == last.dirtyServed = {}

\* C4 (as stated): the response of a detail request never replaces, in the cache, the
\* response of a request for the same job that was issued after it.
C4_NoStaleOverwrite == ~last.staleWrite

\* C5 (as stated): handling image_refined for J while expandedJobId is J issues a
\* GET /api/jobs/J.  (The handler leaves expandedJobId as it was, so the state after
\* the step tells which job was expanded when the event arrived.)
C5_RefinedRefetches ==
  (last.op = "event" /\ last.type = "image_refined" /\ expandedJobId = last.job)
    => \E i \in 1..Len(last.accesses) :
         last.accesses[i].job = last.job /\ last.accesses[i].net

\* C5 (amended): handling image_refined for J while expandedJobId is J and the card of J
\* is in the document issues exactly one GET /api/jobs/J, with forceRefresh set, and the
\* detail element shows the loading message.  (The handler neither adds nor removes a
\* card.)
C5_RefinedRefetchesShownCard ==
  (last.op = "event" /\ last.type = "image_refined" /\ expandedJobId = last.job
     /\ detailView[last.job] # "absent")
    => /\ Len(last.accesses) = 1
       /\ last.accesses[1].job = last.job
       /\ last.accesses[1].force
       /\ last.accesses[1].net
       /\ detailView[last.job] = "loading"

C5_Witness ==
  /\ last.op = "event" /\ last.type = "image_refined" /\ expandedJobId = last.job
  /\ detailView[last.job] = "loading"
  /\ Len(last.accesses) = 1 /\ last.accesses[1].force /\ last.accesses[1].net

\* C6: during a burst of search inputs, each less than DebounceMs after the one before,
\* no query is issued and exactly one debounce timer is pending, due DebounceMs after
\* the last input; outside a burst none is pending; and the callback of that timer
\* issues exactly one query, DebounceMs after the last input, with the trimmed value the
\* input holds then.
C6_OneQueryPerBurst ==
  /\ Len(searchTimers) <= 1
  /\ (elapsed.input >= 0) <=> (Len(searchTimers) = 1)
  /\ \A k \in 1..Len(searchTimers) : searchTimers[k] = DebounceMs - elapsed.input
  /\ (last.op = "input") => (last.queries = <<>>)
  /\ (last.op = "debounce")
       => /\ last.queries = <<Trim(searchInput)>>
          /\ last.waited = DebounceMs
          /\ Len(searchTimers) = 0

\* a burst of at least two inputs has ended with its query
C6_Witness ==
  /\ last.op = "debounce"
  /\ elapsed.changes = 2
  /\ last.queries = <<"a">>
  /\ last.waited = DebounceMs

\* C7: the close callback of the socket sets the status to disconnected and schedules one
\* reconnect, due ReconnectMs later; the reconnect runs exactly ReconnectMs after the
\* close and starts one connection attempt; and whenever there is no socket, a new
\* attempt eventually starts, however many attempts have failed before.
C7_Reconnects ==
  /\ [](last.op = "close"
          => /\ statusDot = "disconnected"
             /\ reconnectTimers = <<ReconnectMs>>
             /\ Len(sockets) = 0)
  /\ [](last.op = "reconnect"
          => /\ last.waited = ReconnectMs
             /\ sockets = <<"CONNECTING">>
             /\ Len(reconnectTimers) = 0)
  /\ ((Len(sockets) = 0) ~> (Len(sockets) > 0))

\* a reconnect has run 3 s after a close, the status still showing disconnected
C7_Witness ==
  /\ last.op = "reconnect"
  /\ last.waited = ReconnectMs
  /\ statusDot = "disconnected"
  /\ sockets = <<"CONNECTING">>

\* C8: at most one socket is connecting, open or closing, at most one reconnect timer is
\* pending, and never both: a connection attempt starts only when the socket before it
\* has had its close event.
C8_OneConnection ==
  /\ Len(sockets) <= 1
  /\ Len(reconnectTimers) <= 1
  /\ Len(sockets) + Len(reconnectTimers) <= 1

\* the socket of a reconnect attempt has had an error and awaits its close event
C8_Witness ==
  /\ last.op = "error"
  /\ statusDot = "disconnected"
  /\ sockets = <<"CLOSING">>
  /\ Len(reconnectTimers) = 0

\* C9: every detail access that finds the job's element issues GET /api/jobs/J exactly
\* when forceRefresh is set or the cache holds no entry for J; otherwise it renders the
\* cached document.
C9_CacheServed ==
  \A i \in 1..Len(last.accesses) :
    LET a == last.accesses[i]
    IN /\ a.net <=> (a.force \/ ~a.cached)
       /\ ~a.net => detailView[a.job] = "detail"

\* an access rendered from the cache
C9_Witness ==
  \E i \in 1..Len(last.accesses) :
    /\ last.accesses[i].cached
    /\ ~last.accesses[i].force
    /\ ~last.accesses[i].net
    /\ detailView[last.accesses[i].job] = "detail"

\* C10: with J collapsed and no detail request for J pending, variant_scored for J and
\* then toggleJob(J) makes one detail access, which issues GET /api/jobs/J: one request
\* for J is pending and the detail element shows the loading message.  (variant_scored
\* changes neither expandedJobId nor the pending requests, so what the toggle finds is
\* what the event found.)
C10_OneGetAfterScored ==
  (last.op = "toggle" /\ last.prevType = "variant_scored" /\ ~last.preBusy
     /\ expandedJobId = last.job)
    => /\ Len(last.accesses) = 1
       /\ last.accesses[1].job = last.job
       /\ last.accesses[1].net
       /\ Cardinality({i \in 1..Len(inflight) : inflight[i].job = last.job}) = 1
       /\ detailView[last.job] = "loading"

C10_Witness ==
  /\ last.op = "toggle" /\ last.prevType = "variant_scored" /\ ~last.preBusy
  /\ expandedJobId = last.job
  /\ Len(last.accesses) = 1 /\ last.accesses[1].net

\* C11 (as stated): after an event of a recognised type for job J, a summary of J is in
\* jobList, and after stage_changed it carries the stage of the event.
C11_ImplicitSummary ==
  (last.op = "event" /\ last.type \in EventTypes)
    => /\ last.job \in JobIds(jobList)
       /\ (last.type = "stage_changed") => (StageOf(jobList, last.job) \in StageInputs)

\* C12 (as stated): a message that is not a well-formed envelope (unparsable, or without
\* data) leaves the socket, the status, jobList, currentJobId, agentLog and
\* jobDetailCache as they were.
C12_MalformedDropped ==
  [][(last'.op = "malformed")
       => UNCHANGED <<sockets, statusDot, jobList, currentJobId, agentLog,
                      jobDetailCache>>]_vars

StageOrder == <<"queued", "research", "prompt_crafting", "generating", "evaluating",
                "complete">>

StagePos(stage) ==
  IF \E i \in 1..Len(StageOrder) : StageOrder[i] = stage
    THEN CHOOSE i \in 1..Len(StageOrder) : StageOrder[i] = stage
    ELSE 0

\* C13 (as stated): while currentJobId stays the same, the stage the pipeline card shows
\* never moves to an earlier place in the order queued .. complete.
C13_NoRegress ==
  [][(currentJobId' = currentJobId /\ StagePos(pipelineStage) > 0
        /\ StagePos(pipelineStage') > 0)
       => StagePos(pipelineStage') >= StagePos(pipelineStage)]_vars

\* C16 (as stated): when job_failed arrives for the tracked job while the card shows
\* the stage at index k of STAGES, the card then shows that stage as failed and every
\* later stage as pending.
C16_FailedAtStage ==
  [][(last'.op = "event" /\ last'.type = "job_failed" /\ last'.job = currentJobId
        /\ StageIndex(pipelineStage) > 0)
       => /\ renderPipeline(pipelineStage')[StageIndex(pipelineStage)] = "failed"
          /\ \A i \in (StageIndex(pipelineStage) + 1)..Len(STAGES) :
               renderPipeline(pipelineStage')[i] = "pending"]_vars

\* C17: after a stage_changed event the pipeline card marks every stage before the
\* stage of the event as done, that stage as active and every later stage as pending
\* (after stage complete, which is none of the four on the card, every stage as done),
\* whatever order the events came in.
C17_DoneThenActive ==
  (last.op = "event" /\ last.type = "stage_changed")
    => LET k == StageIndex(last.stage)
           view == renderPipeline(pipelineStage)
       IN \A i \in 1..Len(STAGES) :
            view[i] = IF last.stage = "complete" \/ i < k THEN "done"
                      ELSE IF i = k THEN "active"
                      ELSE "pending"

C17_Witness ==
  /\ last.op = "event" /\ last.type = "stage_changed" /\ last.stage = "generating"
  /\ renderPipeline(pipelineStage) = <<"done", "done", "active", "pending">>

\* C18 (as stated): stage_changed, job_completed and job_failed for a job that is not
\* the tracked one leave the pipeline card as it is.
C18_TrackedOnly ==
  [][(last'.op = "event" /\ last'.type \in {"stage_changed", "job_completed", "job_failed"}
        /\ last'.job # currentJobId)
       => pipelineStage' = pipelineStage]_vars

\* C14 (as stated): right after the response of a successful submission that carries
\* job id J, J is tracked, the pipeline card shows research, the agent log is empty and
\* jobList holds an entry for J with image_count 0.
C14_AfterResponse ==
  (last.op = "submitDone" /\ last.type = "ok")
    => /\ currentJobId = last.job
       /\ pipelineStage = "research"
       /\ agentLog = <<>>
       /\ \E i \in 1..Len(jobList) : jobList[i].job_id = last.job /\ jobList[i].image_count = 0

\* C14 (amended): right after that response J is tracked, the pipeline card shows queued
\* and the agent log is empty; when the job_started event for J is handled next, J is
\* tracked, the card shows research, the agent log is empty and jobList holds an entry
\* for J, which is the provisional one (stage research, image_count 0) at the head of
\* the list if jobList did not hold J before.
C14_ResponseThenStarted ==
  /\ (last.op = "submitDone" /\ last.type = "ok")
       => /\ currentJobId = last.job
          /\ pipelineStage = "queued"
          /\ renderPipeline(pipelineStage) = [i \in 1..Len(STAGES) |-> "pending"]
          /\ agentLog = <<>>
  /\ (last.op = "event" /\ last.type = "job_started" /\ last.prevType = "submitDone")
       => /\ currentJobId = last.job
          /\ pipelineStage = "research"
          /\ agentLog = <<>>
          /\ last.job \in JobIds(jobList)
          /\ ~last.known => /\ jobList[1].job_id = last.job
                            /\ jobList[1].stage = "research"
                            /\ jobList[1].image_count = 0

C14_Witness ==
  /\ last.op = "event" /\ last.type = "job_started" /\ last.prevType = "submitDone"
  /\ ~last.known
  /\ Len(jobList) = 2 /\ jobList[1].job_id = last.job /\ jobList[1].image_count = 0
  /\ currentJobId = last.job

\* C19 (as stated): for each job (and its variant) at most one POST /api/refine is
\* pending, and while one is pending the submit button of that job's form in the
\* document is disabled.
C19_OneRefineInFlight ==
  \A j \in Jobs :
    /\ Cardinality({i \in 1..Len(refineReqs) : refineReqs[i].job = j}) <= 1
    /\ ((\E i \in 1..Len(refineReqs) : refineReqs[i].job = j) /\ detailView[j] = "detail")
         => RefineDisabled(j)

NetAccesses(jobId) ==
  Cardinality({i \in 1..Len(last.accesses) :
                 last.accesses[i].job = jobId /\ last.accesses[i].net})

C28_OneGetPerEvent ==
  (last.op = "event")
    => /\ \A j \in Jobs : NetAccesses(j) <= 1
       /\ (last.type = "job_completed" /\ last.job = expandedJobId
             /\ last.job \in JobIds(jobList))
            => NetAccesses(last.job) = 1

\* C21 (as stated): a summary that job_started filed (the only ones with image_count 0)
\* is still in jobList after a successful catalog response that does not list its job.
C21_ProvisionalKept ==
  [][(last'.op = "catalog" /\ last'.type = "ok")
       => \A i \in 1..Len(jobList) :
            (jobList[i].image_count = 0) => (jobList[i].job_id \in JobIds(jobList'))]_vars

\* C22 (as stated): a catalog request that fails (the fetch rejects, the status is an
\* error, or the body does not parse) leaves jobList as it was, and the events handled
\* afterwards end without an exception.
C22_FailureKeepsCatalog ==
  [][/\ (last'.op = "catalog" /\ last'.type \in {"fail", "rejected"})
          => (jobList' = jobList /\ jobListIsArray' = jobListIsArray)
     /\ (last'.op = "event") => ~last'.threw]_vars

\* C27 (as stated): when the last of several pending catalog requests is answered,
\* jobList is the list answered to the most recently issued of them, whatever the order
\* of the responses.
C27_NewestRequestWins ==
  (last.op = "catalog" /\ last.type = "ok" /\ catalogReqs = <<>> /\ last.newest # <<>>)
    => jobList = last.newest[1]

\* C23 (as stated): agentLog never holds more than 30 entries, so that what
\* renderAgentLog shows, its 30 most recent entries in order, is the whole log.
C23_LogAtMostThirty ==
  /\ Len(agentLog) <= LogWindow
  /\ renderAgentLog(agentLog) = agentLog

\* C24: every step that changes currentJobId to another job id, a job_started event or
\* the response of a successful submission, leaves agentLog empty.
C24_SwitchClearsLog ==
  [][(currentJobId' # currentJobId) => (agentLog' = <<>>)]_vars

C24_Witness ==
  /\ last.op = "submitDone" /\ last.type = "ok" /\ last.cleared
  /\ currentJobId = last.job
  /\ agentLog = <<>>

\* C29 (as stated): while currentJobId stays the same job, no step discards an entry of
\* agentLog: the log before the step is a prefix of the log after it.
C29_EntriesKept ==
  [][(currentJobId' = currentJobId /\ currentJobId # NULL)
       => /\ Len(agentLog') >= Len(agentLog)
          /\ SubSeq(agentLog', 1, Len(agentLog)) = agentLog]_vars

\* C25: the submit button is disabled exactly while a POST /api/generate is pending,
\* of which there is never more than one; after the response, whatever it is, the
\* button is enabled.
C25_DisabledWhilePending ==
  /\ submitReqs <= 1
  /\ submitDisabled <=> (submitReqs = 1)
  /\ (last.op = "submitDone") => ~submitDisabled

C25_Witness ==
  /\ last.op = "submitDone" /\ last.type = "fail"
  /\ ~submitDisabled /\ submitReqs = 0
  /\ promptValue = "p" /\ Len(uploadedFiles) > 0

\* C26: a submission while the prompt field is empty or holds only white space issues
\* no POST /api/generate and changes nothing: the prompt field, the staged files, the
\* tracked job, the agent log, the pipeline card and the submit button stay as they were.
C26_EmptyPromptIgnored ==
  [][(last'.op = "submit" /\ Trim(promptValue) = "")
       => UNCHANGED <<submitReqs, submitDisabled, promptValue, uploadedFiles, currentJobId,
                      agentLog, pipelineStage, jobList>>]_vars

C26_Witness ==
  /\ last.op = "submit" /\ last.type = "" /\ promptValue = " "
  /\ Len(uploadedFiles) > 0 /\ currentJobId # NULL /\ Len(agentLog) > 0
  /\ submitReqs = 0 /\ ~submitDisabled

====
